---- MODULE Spec2Model ----
(***************************************************************************)
(* Model of Compiler/assembler.py: the Assembler class that translates a   *)
(* source file of "mnemonic operand operand ..." lines into binary words.  *)
(*                                                                         *)
(* Python strings are modelled as sequences of one-character strings, so   *)
(* that strip, split, zfill, int, bin and the other conversions are        *)
(* computed the way Python computes them.                                  *)
(***************************************************************************)
EXTENDS Integers, Sequences, FiniteSets, TLC

(***************************************************************************)
(* Bounds of the model.                                                    *)
(***************************************************************************)
\* longest source file, in lines
MaxLines == 3
\* most operand tokens on a line handed to calculate on its own
MaxOperands == 3
\* largest magnitude of a lone plain operand handed to calculate
MaxV == 130
\* largest magnitude of the two integers of a lone indexed operand
MaxIdx == 6

(***************************************************************************)
(* Python built-ins used by the assembler.                                 *)
(***************************************************************************)
\* the characters str.strip() removes that occur in the modelled files
Whitespace == {" ", "\t", "\n"}

DigitChars == <<"0", "1", "2", "3", "4", "5", "6", "7", "8", "9">>

HexChars == <<"0", "1", "2", "3", "4", "5", "6", "7", "8", "9", "A", "B", "C", "D", "E", "F">>

DigitSet == {DigitChars[i] : i \in 1..Len(DigitChars)}

DigitVal(c) == (CHOOSE i \in 1..Len(DigitChars) : DigitChars[i] = c) - 1

\* '0' * n
RECURSIVE Zeros(_)
Zeros(n) == IF n <= 0 THEN <<>> ELSE <<"0">> \o Zeros(n - 1)

\* s.lstrip(chars)
RECURSIVE lstrip(_, _)
lstrip(s, chars) ==
  IF s # <<>> /\ Head(s) \in chars THEN lstrip(Tail(s), chars) ELSE s

\* s.rstrip(chars)
RECURSIVE rstrip(_, _)
rstrip(s, chars) ==
  IF s # <<>> /\ s[Len(s)] \in chars
  THEN rstrip(SubSeq(s, 1, Len(s) - 1), chars)
  ELSE s

\* s.strip()
strip(s) == rstrip(lstrip(s, Whitespace), Whitespace)

\* s.startswith(prefix)
startswith(s, prefix) ==
  Len(s) >= Len(prefix) /\ SubSeq(s, 1, Len(prefix)) = prefix

\* s.find(sub), one-based; 0 when sub does not occur
find(s, sub) ==
  LET hits == {i \in 1..(Len(s) - Len(sub) + 1) : SubSeq(s, i, i + Len(sub) - 1) = sub}
  IN  IF hits = {} THEN 0 ELSE CHOOSE i \in hits : \A j \in hits : i <= j

\* sub in s
contains(sub, s) == find(s, sub) # 0

\* s.split(sep): always at least one piece, empty pieces kept
RECURSIVE split(_, _)
split(s, sep) ==
  LET i == find(s, sep)
  IN  IF i = 0
      THEN <<s>>
      ELSE <<SubSeq(s, 1, i - 1)>> \o split(SubSeq(s, i + Len(sep), Len(s)), sep)

\* s.replace(old, new)
RECURSIVE replace(_, _, _)
replace(s, old, new) ==
  LET i == find(s, old)
  IN  IF i = 0
      THEN s
      ELSE SubSeq(s, 1, i - 1) \o new \o replace(SubSeq(s, i + Len(old), Len(s)), old, new)

\* s.zfill(width): zeros go after a leading sign
zfill(s, width) ==
  IF Len(s) >= width
  THEN s
  ELSE IF s # <<>> /\ Head(s) \in {"+", "-"}
       THEN <<Head(s)>> \o Zeros(width - Len(s)) \o Tail(s)
       ELSE Zeros(width - Len(s)) \o s

\* the digits of a literal once the surrounding blanks and the sign are gone
Unsigned(s) ==
  LET t == strip(s)
  IN  IF t # <<>> /\ Head(t) \in {"+", "-"} THEN Tail(t) ELSE t

\* int(s) raises ValueError unless s is [blanks][sign]digits[blanks], where
\* single underscores may separate the digits
IntOk(s) ==
  LET u == Unsigned(s)
  IN  /\ u # <<>>
      /\ \A i \in 1..Len(u) : u[i] \in DigitSet \cup {"_"}
      /\ u[1] # "_" /\ u[Len(u)] # "_"
      /\ \A i \in 1..(Len(u) - 1) : ~(u[i] = "_" /\ u[i + 1] = "_")

RECURSIVE DecValue(_)
DecValue(u) ==
  IF u = <<>> THEN 0
  ELSE IF u[Len(u)] = "_" THEN DecValue(SubSeq(u, 1, Len(u) - 1))
  ELSE 10 * DecValue(SubSeq(u, 1, Len(u) - 1)) + DigitVal(u[Len(u)])

\* int(s) for a string int accepts
int(s) ==
  LET t == strip(s)
      v == DecValue(Unsigned(s))
  IN  IF t # <<>> /\ Head(t) = "-" THEN 0 - v ELSE v

RECURSIVE BinDigits(_)
BinDigits(n) ==
  IF n < 2 THEN <<DigitChars[n + 1]>>
  ELSE BinDigits(n \div 2) \o <<DigitChars[(n % 2) + 1]>>

\* bin(n): "0b101", "-0b101"
bin(n) ==
  IF n < 0 THEN <<"-", "0", "b">> \o BinDigits(0 - n)
  ELSE <<"0", "b">> \o BinDigits(n)

NibbleVal(q) ==
  8 * DigitVal(q[1]) + 4 * DigitVal(q[2]) + 2 * DigitVal(q[3]) + DigitVal(q[4])

RECURSIVE HexDigits(_)
HexDigits(bits) ==
  IF bits = <<>> THEN <<>>
  ELSE HexDigits(SubSeq(bits, 1, Len(bits) - 4))
         \o <<HexChars[NibbleVal(SubSeq(bits, Len(bits) - 3, Len(bits))) + 1]>>

\* '0x{0:0{1}X}'.format(int(binary, 2), 8) for a string of binary digits:
\* the value in upper-case hexadecimal, zero-padded to 8 digits, not truncated
HexFormat(binary) ==
  LET sig    == lstrip(binary, {"0"})
      padded == Zeros((4 - (Len(sig) % 4)) % 4) \o sig
      digits == IF sig = <<>> THEN <<"0">> ELSE HexDigits(padded)
  IN  <<"0", "x">> \o zfill(digits, 8)

(***************************************************************************)
(* Program constants.                                                      *)
(***************************************************************************)
\* the span every call of populate is given
FieldWidth == 7

\* the width calculate pads the word to
WordWidth == 32

\* a fallback opcode one character too long
DefaultOpcode_long == <<"0", "0", "0", "0", "0", "0", "0", "0", "0", "0", "0", "0">>

\* the opcode of a mnemonic the table does not hold: '00000000000'
DefaultOpcode == <<"0", "0", "0", "0", "0", "0", "0", "0", "0", "0", "0">>

\* the sentinel searched for in the mnemonic
StopWord == <<"s", "t", "o", "p">>

(***************************************************************************)
(* Inputs: opcode tables and source lines.                                 *)
(***************************************************************************)
MnAdd == <<"a", "d", "d">>

MnLd == <<"l", "d">>

OpAdd == <<"0", "0", "0", "0", "0", "0">>

OpLd == <<"0", "0", "0", "0", "0", "1", "1", "0", "1", "0", "0">>

\* the tables import_map can have built: {add} and {add, ld}
OpcodeTables ==
  { [m \in {MnAdd} |-> OpAdd],
    [m \in {MnAdd, MnLd} |-> IF m = MnAdd THEN OpAdd ELSE OpLd] }

\* 'add 1 2\n'
LineAdd12 == <<"a", "d", "d", " ", "1", " ", "2", "\n">>
\* 'add -5 3\n'
LineAddNeg == <<"a", "d", "d", " ", "-", "5", " ", "3", "\n">>
\* 'foo 1 2 3\n'
LineUnknown3 == <<"f", "o", "o", " ", "1", " ", "2", " ", "3", "\n">>
\* '\n'
LineEmpty == <<"\n">>
\* '  // c\n'
LineComment == <<" ", " ", "/", "/", " ", "c", "\n">>
\* 'stop\n'
LineStop == <<"s", "t", "o", "p", "\n">>
\* 'nonstop x\n'
LineNonstop == <<"n", "o", "n", "s", "t", "o", "p", " ", "x", "\n">>
\* 'add  1\n'
LineDoubleSpace == <<"a", "d", "d", " ", " ", "1", "\n">>
\* 'add x\n'
LineBadToken == <<"a", "d", "d", " ", "x", "\n">>
\* 'ld 1 2(3) // c\n'
LineIndexed == <<"l", "d", " ", "1", " ", "2", "(", "3", ")", " ", "/", "/", " ", "c", "\n">>
\* 'ld 2(3))\n'
LineLooseIndexed == <<"l", "d", " ", "2", "(", "3", ")", ")", "\n">>

SourceLines ==
  { LineAdd12, LineAddNeg, LineUnknown3, LineEmpty, LineComment, LineStop,
    LineNonstop, LineDoubleSpace, LineBadToken, LineIndexed, LineLooseIndexed }

\* the files of at most n lines
SourceFiles(n) == UNION { [1..len -> SourceLines] : len \in 0..n }

\* str(n) for n >= 0
RECURSIVE DecDigits(_)
DecDigits(n) ==
  IF n < 10 THEN <<DigitChars[n + 1]>>
  ELSE DecDigits(n \div 10) \o <<DigitChars[(n % 10) + 1]>>

\* the token a source line holds for the integer v
Literal(v) == IF v < 0 THEN <<"-">> \o DecDigits(0 - v) ELSE DecDigits(v)

\* the token "r(o)"
IndexedToken(r, o) == Literal(r) \o <<"(">> \o Literal(o) \o <<")">>

\* operand tokens of the lines handed to calculate: plain, indexed, malformed
ListTokens ==
  { Literal(1), Literal(2), Literal(0 - 5), Literal(0), IndexedToken(2, 3), <<"x">> }

\* the operations (mnemonic first) handed to calculate on its own
CalcOperations ==
  UNION { { <<MnAdd>> \o l : l \in UNION { [1..n -> ListTokens] : n \in 0..MaxOperands } },
          { <<MnAdd, Literal(v)>> : v \in (0 - MaxV)..MaxV },
          { <<MnAdd, IndexedToken(r, o)>> : r, o \in (0 - MaxIdx)..MaxIdx } }

\* the opcodes handed to calculate on its own
CalcOpcodes == { OpAdd, OpLd, DefaultOpcode, <<"1", "0", "1">> }

(***************************************************************************)
(* The assembler's pure functions.                                         *)
(***************************************************************************)
\* Assembler.interpret_line
interpret_line(text_line) ==
  split(strip(split(strip(text_line), <<"/", "/">>)[1]), <<" ">>)

\* populate without the padding
populate_unpadded(sequence, span) == lstrip(sequence, {"-"})

\* Assembler.populate
populate(sequence, span) ==
  LET padded == zfill(lstrip(sequence, {"-"}), span)
  IN  IF startswith(padded, <<"-">>) THEN <<"1">> \o Tail(padded) ELSE padded

\* '(' in op and ')' in op
IsIndexed(op) == contains(<<"(">>, op) /\ contains(<<")">>, op)

\* op.split('(')[0]
RegOffsetPart(op) == split(op, <<"(">>)[1]

\* op.split('(')[1].rstrip(')')
OffsetPart(op) == rstrip(split(op, <<"(">>)[2], {")"})

\* populate(bin(int(token)).replace("0b", ""), 7)
FieldOf(token) == populate(replace(bin(int(token)), <<"0", "b">>, <<>>), FieldWidth)

\* one pass of calculate's loop raises ValueError
OperandRaises(op) ==
  IF IsIndexed(op)
  THEN ~IntOk(RegOffsetPart(op)) \/ ~IntOk(OffsetPart(op))
  ELSE ~IntOk(op)

\* the loop body with the two fields of an indexed operand exchanged
OperandField_swapped(op) ==
  IF IsIndexed(op)
  THEN FieldOf(OffsetPart(op)) \o FieldOf(RegOffsetPart(op))
  ELSE FieldOf(op)

\* what one pass of calculate's loop appends to instruction_binary
OperandField(op) ==
  IF IsIndexed(op)
  THEN FieldOf(RegOffsetPart(op)) \o FieldOf(OffsetPart(op))
  ELSE FieldOf(op)

RECURSIVE Fields(_)
Fields(ops) ==
  IF ops = <<>> THEN <<>> ELSE OperandField(Head(ops)) \o Fields(Tail(ops))

\* calculate raises ValueError at the first operand int() refuses
CalculateRaises(tokens) ==
  \E i \in 2..Len(tokens) : OperandRaises(tokens[i])

\* padding that also cuts the word down to its last 32 characters
PadWord_truncating(binary) ==
  LET padded == zfill(binary, WordWidth)
  IN  SubSeq(padded, Len(padded) - WordWidth + 1, Len(padded))

\* instruction_binary.zfill(32), the value calculate returns
PadWord(binary) == zfill(binary, WordWidth)

\* Assembler.calculate, for an operation it does not raise on
calculate(opcode, tokens) == PadWord(opcode \o Fields(Tail(tokens)))

\* the sentinel test as an equality
IsStop_exact(mnemonic) == mnemonic = StopWord

\* "stop" in mnemonic
IsStop(mnemonic) == contains(StopWord, mnemonic)

\* instruction_to_opcode_dict.get(mnemonic, '00000000000')
Lookup(table, mnemonic) ==
  IF mnemonic \in DOMAIN table THEN table[mnemonic] ELSE DefaultOpcode

\* a record carrying the stripped line instead of the line as read
DebugRecord_stripped(severity, binary, text_line) ==
  IF severity = 2
  THEN binary \o <<"\t">> \o HexFormat(binary) \o <<"\t">> \o strip(text_line)
  ELSE binary \o <<"\t">> \o strip(text_line)

\* the record written to debug.out
DebugRecord(severity, binary, text_line) ==
  IF severity = 2
  THEN binary \o <<"\t">> \o HexFormat(binary) \o <<"\t">> \o text_line
  ELSE binary \o <<"\t">> \o text_line

(***************************************************************************)
(* State.                                                                  *)
(***************************************************************************)
VARIABLES
  instruction_to_opcode_dict, \* mnemonic -> opcode, built by import_map
  source_file,                \* the lines of the source file
  log_severity,               \* the debug argument: False = 0, True = 1
  pos,                        \* index of the next line the loop reads
  state,                      \* RUNNING, STOPPED, ABORTED or FINISHED
  destination_file,           \* the strings written to the primary output
  debug_out,                  \* the strings written to debug.out
  operation_code,             \* calculate: its first argument
  operation,                  \* calculate: its second argument
  instruction_binary,         \* calculate: the local being built
  op_index,                   \* calculate: index of the next token of operation
  calc_pc,                    \* calculate: idle, loop, returned or raised
  returned                    \* calculate: the value returned

driver_vars ==
  <<instruction_to_opcode_dict, source_file, log_severity, pos, state,
    destination_file, debug_out>>

calc_vars == <<operation_code, operation, instruction_binary, op_index, calc_pc, returned>>

vars == <<driver_vars, calc_vars>>

CalcIdle ==
  /\ operation_code = <<>>
  /\ operation = <<>>
  /\ instruction_binary = <<>>
  /\ op_index = 0
  /\ calc_pc = "idle"
  /\ returned = <<>>

(***************************************************************************)
(* interpret_input: the session over one source file.                      *)
(***************************************************************************)
\* Assembler(...) built by __main__ (debug False or True) or by a caller
\* passing a number as debug
Init ==
  /\ instruction_to_opcode_dict \in OpcodeTables
  /\ source_file \in SourceFiles(MaxLines)
  /\ log_severity \in {0, 1, 2}
  /\ pos = 1
  /\ state = "RUNNING"
  /\ destination_file = <<>>
  /\ debug_out = <<>>
  /\ CalcIdle

\* one pass of the loop of interpret_input over the next line
Iterate ==
  /\ state = "RUNNING"
  /\ pos <= Len(source_file)
  /\ LET text_line == source_file[pos]
         parsed    == interpret_line(text_line)
         mnemonic  == parsed[1]
         opcode    == Lookup(instruction_to_opcode_dict, mnemonic)
         binary    == calculate(opcode, parsed)
     IN  /\ pos' = pos + 1
         /\ IF IsStop(mnemonic)
            THEN /\ state' = "STOPPED"
                 /\ UNCHANGED <<destination_file, debug_out>>
            ELSE IF CalculateRaises(parsed)
            THEN /\ state' = "ABORTED"
                 /\ UNCHANGED <<destination_file, debug_out>>
            ELSE /\ state' = "RUNNING"
                 /\ destination_file' = Append(destination_file, binary \o <<"\n">>)
                 /\ debug_out' = Append(debug_out, DebugRecord(log_severity, binary, text_line))
  /\ UNCHANGED <<instruction_to_opcode_dict, source_file, log_severity, calc_vars>>

\* the loop runs out of lines and the with block closes the files
EndOfInput ==
  /\ state = "RUNNING"
  /\ pos > Len(source_file)
  /\ state' = "FINISHED"
  /\ UNCHANGED <<instruction_to_opcode_dict, source_file, log_severity, pos,
                 destination_file, debug_out, calc_vars>>

Next == Iterate \/ EndOfInput

Spec == Init /\ [][Next]_vars

(***************************************************************************)
(* calculate on its own, one pass of its loop at a time.                   *)
(***************************************************************************)
\* calculate is entered: instruction_binary = operation_code
InitCalc ==
  /\ instruction_to_opcode_dict \in OpcodeTables
  /\ source_file = <<>>
  /\ log_severity = 0
  /\ pos = 1
  /\ state = "IDLE"
  /\ destination_file = <<>>
  /\ debug_out = <<>>
  /\ operation_code \in CalcOpcodes
  /\ operation \in CalcOperations
  /\ instruction_binary = operation_code
  /\ op_index = 2
  /\ calc_pc = "loop"
  /\ returned = <<>>

\* one pass of `for op in operation[1:]`
CalcOperand ==
  /\ calc_pc = "loop"
  /\ op_index <= Len(operation)
  /\ IF OperandRaises(operation[op_index])
     THEN /\ calc_pc' = "raised"
          /\ UNCHANGED <<instruction_binary, op_index>>
     ELSE /\ instruction_binary' = instruction_binary \o OperandField(operation[op_index])
          /\ op_index' = op_index + 1
          /\ UNCHANGED calc_pc
  /\ UNCHANGED <<driver_vars, operation_code, operation, returned>>

\* return instruction_binary.zfill(32)
CalcReturn ==
  /\ calc_pc = "loop"
  /\ op_index > Len(operation)
  /\ returned' = PadWord(instruction_binary)
  /\ calc_pc' = "returned"
  /\ UNCHANGED <<driver_vars, operation_code, operation, instruction_binary, op_index>>

NextCalc == CalcOperand \/ CalcReturn

SpecCalc == InitCalc /\ [][NextCalc]_vars

(***************************************************************************)
(* Vocabulary of the properties, defined apart from the operators above.   *)
(***************************************************************************)
Abs(v) == IF v < 0 THEN 0 - v ELSE v

\* number of binary digits of n >= 0 (1 for 0)
RECURSIVE BitLength(_)
BitLength(n) == IF n < 2 THEN 1 ELSE 1 + BitLength(n \div 2)

\* sign bit, then the magnitude of v in w - 1 binary digits
SignMagnitude(v, w) ==
  [i \in 1..w |->
     IF i = 1
     THEN IF v < 0 THEN "1" ELSE "0"
     ELSE IF (Abs(v) \div (2 ^ (w - i))) % 2 = 1 THEN "1" ELSE "0"]

\* [sign]digits
IsIntegerLiteral(t) ==
  LET d == IF t # <<>> /\ t[1] \in {"+", "-"} THEN Tail(t) ELSE t
  IN  d # <<>> /\ \A i \in 1..Len(d) : d[i] \in DigitSet

\* literal "(" literal ")"
IsIndexedForm(t) ==
  \E i \in 2..(Len(t) - 2) :
     /\ t[i] = "("
     /\ t[Len(t)] = ")"
     /\ IsIntegerLiteral(SubSeq(t, 1, i - 1))
     /\ IsIntegerLiteral(SubSeq(t, i + 1, Len(t) - 1))

IsOperandToken(t) == IsIntegerLiteral(t) \/ IsIndexedForm(t)

\* the mnemonic holds "stop" somewhere
HasStop(m) == \E i \in 1..(Len(m) - 3) : SubSeq(m, i, i + 3) = <<"s", "t", "o", "p">>

\* the loop of interpret_input is about to read a line
AtLine == state = "RUNNING" /\ pos <= Len(source_file)

\* the tokens of the line about to be read
TokensAtLine == interpret_line(source_file[pos])

OutputsUnchanged == destination_file' = destination_file /\ debug_out' = debug_out

\* word is c left-padded with "0" to 32 characters, or c itself when longer
LeftPadded(word, c) ==
  IF Len(c) <= 32
  THEN /\ Len(word) = 32
       /\ SubSeq(word, 32 - Len(c) + 1, 32) = c
       /\ \A i \in 1..(32 - Len(c)) : word[i] = "0"
  ELSE word = c

\* the word of the i-th line of the primary output, without its newline
WordOut(i) == SubSeq(destination_file[i], 1, Len(destination_file[i]) - 1)

(***************************************************************************)
(* C1                                                                      *)
(***************************************************************************)
\* C1: for every integer V with |V| < 2^6, the field calculate appends for the
\* plain operand V is the sign bit (1 exactly when V < 0) followed by the
\* magnitude of V in 6 binary digits; so -5 gives 1000101, 5 gives 0000101
\* and 0 gives 0000000.
C1_SignMagnitude ==
  \A v \in (0 - (2 ^ 6 - 1))..(2 ^ 6 - 1) :
     (calc_pc = "returned" /\ operation = <<MnAdd, Literal(v)>>)
        => instruction_binary = operation_code \o SignMagnitude(v, 7)

(***************************************************************************)
(* C2                                                                      *)
(***************************************************************************)
\* C2: a line whose mnemonic holds "stop" takes the session to STOPPED and
\* adds nothing to either output; once STOPPED the session stays STOPPED and
\* the outputs never change again, whatever the remaining lines hold.
C2_StopSentinel ==
  [][ /\ (AtLine /\ HasStop(TokensAtLine[1]))
          => (state' = "STOPPED" /\ OutputsUnchanged)
      /\ state = "STOPPED" => (state' = "STOPPED" /\ OutputsUnchanged) ]_vars

\* the session stopped after emitting a word, with a malformed line left unread
C2_Witness ==
  /\ state = "STOPPED"
  /\ destination_file # <<>>
  /\ pos <= Len(source_file)
  /\ source_file[pos] = LineBadToken

(***************************************************************************)
(* C3                                                                      *)
(***************************************************************************)
\* C3: a line with an empty mnemonic (empty, blank or comment-only) read
\* while RUNNING adds no word to the primary output and leaves the session
\* RUNNING.
C3_EmptyLineNoOp ==
  [][ (AtLine /\ TokensAtLine[1] = <<>>)
         => (state' = "RUNNING" /\ destination_file' = destination_file) ]_vars

(***************************************************************************)
(* C4                                                                      *)
(***************************************************************************)
\* C4: with the debug flag set (log_severity = True) every diagnostic record
\* is word TAB hex TAB line; with the flag not set (False) every record is
\* word TAB line.
C4_HexFollowsDebugFlag ==
  \A i \in 1..Len(debug_out) :
     /\ log_severity = 1
          => debug_out[i] = WordOut(i) \o <<"\t">> \o HexFormat(WordOut(i))
                               \o <<"\t">> \o source_file[i]
     /\ log_severity = 0
          => debug_out[i] = WordOut(i) \o <<"\t">> \o source_file[i]

(***************************************************************************)
(* C5                                                                      *)
(***************************************************************************)
\* the value returned is the opcode followed by the operand fields in token
\* order, left-padded with "0" to 32 characters, unpadded and untruncated
\* when longer
C5_Padded ==
  calc_pc = "returned"
     => LeftPadded(returned, operation_code \o Fields(Tail(operation)))

\* calculate has returned for opcode 000000 and the tokens of "add 1 2"
C5_Add12 ==
  /\ calc_pc = "returned"
  /\ operation_code = OpAdd
  /\ operation = <<MnAdd, <<"1">>, <<"2">>>>

\* C5 as stated: the padding rule, and "add 1 2" under opcode 000000 gives
\* 18 zeros, then "1", then "0000010".
C5_WordAssemblyAsStated ==
  /\ C5_Padded
  /\ C5_Add12 => returned = Zeros(18) \o <<"1">> \o <<"0", "0", "0", "0", "0", "1", "0">>

\* C5 amended: the padding rule, and "add 1 2" under opcode 000000 gives
\* 24 zeros, then "1", then "0000010" (32 characters).
C5_WordAssembly ==
  /\ C5_Padded
  /\ C5_Add12 => returned = Zeros(24) \o <<"1">> \o <<"0", "0", "0", "0", "0", "1", "0">>

\* "add 1 2" under opcode 000000 has returned its 32-character word
C5_Witness ==
  /\ C5_Add12
  /\ Len(returned) = 32
  /\ instruction_binary = OpAdd \o <<"0", "0", "0", "0", "0", "0", "1">>
                                \o <<"0", "0", "0", "0", "0", "1", "0">>

(***************************************************************************)
(* C6                                                                      *)
(***************************************************************************)
\* the line about to be read has a mnemonic the table lacks, without "stop",
\* and operands that are all integer literals or indexed forms
C6_UnknownValidLine ==
  /\ AtLine
  /\ TokensAtLine[1] \notin DOMAIN instruction_to_opcode_dict
  /\ ~HasStop(TokensAtLine[1])
  /\ \A i \in 2..Len(TokensAtLine) : IsOperandToken(TokensAtLine[i])

\* C6: such a line emits exactly one word, eleven zeros followed by its
\* operand fields and left-padded to 32, and leaves the session RUNNING; with
\* at most 21 field characters the word is 32 characters long.
C6_UnknownMnemonic ==
  [][ C6_UnknownValidLine
        => LET f == Fields(Tail(TokensAtLine))
           IN  /\ state' = "RUNNING"
               /\ Len(destination_file') = Len(destination_file) + 1
               /\ destination_file'[Len(destination_file')] =
                    (IF Len(f) <= 21 THEN Zeros(32 - Len(f)) ELSE Zeros(11))
                       \o f \o <<"\n">> ]_vars

\* "foo 1 2 3" has emitted its word and the session goes on
C6_Witness ==
  /\ state = "RUNNING"
  /\ \E i \in 1..Len(destination_file) :
        /\ source_file[i] = LineUnknown3
        /\ Len(WordOut(i)) = 32

(***************************************************************************)
(* C7                                                                      *)
(***************************************************************************)
\* C7: a line read while RUNNING, not a stop line, with an operand token
\* that is neither an integer literal nor an indexed form of two integer
\* literals aborts the session and leaves both outputs as they were.
C7_OperandErrorFatal ==
  [][ ( /\ AtLine
        /\ ~HasStop(TokensAtLine[1])
        /\ \E i \in 2..Len(TokensAtLine) : ~IsOperandToken(TokensAtLine[i]) )
         => (state' = "ABORTED" /\ OutputsUnchanged) ]_vars

(***************************************************************************)
(* C8                                                                      *)
(***************************************************************************)
\* C8: the two outputs hold the same number of entries, no more than the
\* lines read; the i-th primary line is a word and a newline, and the i-th
\* diagnostic record is that word, a TAB, possibly the hex column and a TAB,
\* and the text of the i-th source line as read.
C8_Lockstep ==
  /\ Len(debug_out) = Len(destination_file)
  /\ Len(destination_file) <= pos - 1
  /\ \A i \in 1..Len(destination_file) :
        /\ destination_file[i][Len(destination_file[i])] = "\n"
        /\ debug_out[i] \in
             { WordOut(i) \o <<"\t">> \o source_file[i],
               WordOut(i) \o <<"\t">> \o HexFormat(WordOut(i)) \o <<"\t">> \o source_file[i] }

\* two different lines have been emitted, in order
C8_Witness ==
  /\ Len(debug_out) >= 2
  /\ source_file[1] = LineIndexed
  /\ source_file[2] = LineAdd12

(***************************************************************************)
(* C9                                                                      *)
(***************************************************************************)
\* C9: for the lone operand "R(O)", calculate appends the field a plain
\* operand R gets followed by the field a plain operand O gets; "2(3)"
\* appends 0000010 then 0000011.
C9_Indexed ==
  /\ \A r, o \in (0 - MaxIdx)..MaxIdx :
        (calc_pc = "returned" /\ operation = <<MnAdd, IndexedToken(r, o)>>)
           => instruction_binary =
                operation_code \o FieldOf(Literal(r)) \o FieldOf(Literal(o))
  /\ (calc_pc = "returned" /\ operation = <<MnAdd, IndexedToken(2, 3)>>)
        => instruction_binary =
             operation_code \o <<"0", "0", "0", "0", "0", "1", "0">>
                            \o <<"0", "0", "0", "0", "0", "1", "1">>

\* "2(3)" has been encoded
C9_Witness ==
  /\ calc_pc = "returned"
  /\ operation = <<MnAdd, IndexedToken(2, 3)>>
  /\ Len(instruction_binary) = Len(operation_code) + 14

(***************************************************************************)
(* C10                                                                     *)
(***************************************************************************)
\* the operand tokens of the operation calculate was given
C10_Operands == Tail(operation)

\* number of fields the claim counts for a token: two when indexed
C10_FieldCount(t) == IF \E i \in 1..Len(t) : t[i] = "(" THEN 2 ELSE 1

RECURSIVE C10_TotalFields(_)
C10_TotalFields(ts) ==
  IF ts = <<>> THEN 0 ELSE C10_FieldCount(Head(ts)) + C10_TotalFields(Tail(ts))

\* C10 as stated: whatever the operand values, the concatenation before
\* padding has the opcode's length plus 7 per plain operand and 14 per
\* indexed operand.
C10_FixedWidthAsStated ==
  calc_pc = "returned"
     => Len(instruction_binary) = Len(operation_code) + 7 * C10_TotalFields(C10_Operands)

\* C10 amended: a lone plain operand V gives a field of 7 characters when
\* |V| < 2^7 and of as many characters as |V| has binary digits otherwise;
\* operands whose integers are all below 2^7 in magnitude give 7 characters
\* per plain operand and 14 per indexed operand.
C10_FixedWidth ==
  /\ \A v \in (0 - MaxV)..MaxV :
        (calc_pc = "returned" /\ operation = <<MnAdd, Literal(v)>>)
           => Len(instruction_binary) =
                Len(operation_code) + (IF Abs(v) < 2 ^ 7 THEN 7 ELSE BitLength(Abs(v)))
  /\ (calc_pc = "returned" /\ \A v \in (0 - MaxV)..MaxV : operation # <<MnAdd, Literal(v)>>)
        => Len(instruction_binary) = Len(operation_code) + 7 * C10_TotalFields(C10_Operands)

\* a negative operand of small magnitude has been given its 7 characters
C10_Witness ==
  /\ calc_pc = "returned"
  /\ operation = <<MnAdd, Literal(0 - 100)>>
  /\ Len(instruction_binary) = Len(operation_code) + 7

====
